---------------------------- MODULE Spec2Model ----------------------------
(***************************************************************************)
(* Global Index Tracker (app.py): the cached fetch of the closing prices,  *)
(* the forward-fill, and the base-100 normalization that every render      *)
(* recomputes from the fetched table.                                      *)
(*                                                                         *)
(* A DataFrame is a record [index, data]: index is the ascending sequence  *)
(* of dates, data maps each column label to its sequence of cells.  A cell *)
(* is a float64, kept as a 53-bit significand and a binary exponent, so    *)
(* that a division and a multiplication round as they do in the program.   *)
(***************************************************************************)
EXTENDS Integers, Sequences, FiniteSets, TLC

(***************************************************************************)
(* Natural numbers wider than a machine word: little-endian limb           *)
(* sequences in base 2^15 (the significand of a float64 needs 53 bits).    *)
(***************************************************************************)
LimbBits == 15
Base == 2 ^ LimbBits

\* float64: the significand has 53 bits
PrecBits == 53

\* Extra quotient bits computed by a division before rounding.
GuardBits == LimbBits - 1

RECURSIVE Trim(_)
Trim(a) ==
    IF a = <<>> THEN <<>>
    ELSE IF a[Len(a)] = 0 THEN Trim(SubSeq(a, 1, Len(a) - 1))
    ELSE a

RECURSIVE IntLimbs(_)
IntLimbs(n) == IF n = 0 THEN <<>> ELSE <<n % Base>> \o IntLimbs(n \div Base)

RECURSIVE LimbsInt(_)
LimbsInt(a) == IF a = <<>> THEN 0 ELSE a[1] + Base * LimbsInt(Tail(a))

\* limbs i.. of a * k + carry
RECURSIVE MulFrom(_, _, _, _)
MulFrom(a, k, i, carry) ==
    IF i > Len(a) THEN (IF carry = 0 THEN <<>> ELSE <<carry>>)
    ELSE LET s == a[i] * k + carry
         IN  <<s % Base>> \o MulFrom(a, k, i + 1, s \div Base)

MulSmall(a, k) == MulFrom(a, k, 1, 0)

AddOne(a) == MulFrom(a, 1, 1, 1)

\* quotient limbs 1..i and the remainder of (r * Base^i + a[1..i]) / k
RECURSIVE DivFrom(_, _, _, _)
DivFrom(a, k, i, r) ==
    IF i = 0 THEN [q |-> <<>>, r |-> r]
    ELSE LET cur  == r * Base + a[i]
             rest == DivFrom(a, k, i - 1, cur % k)
         IN  [q |-> rest.q \o <<cur \div k>>, r |-> rest.r]

DivSmall(a, k) ==
    LET d == DivFrom(a, k, Len(a), 0) IN [q |-> Trim(d.q), r |-> d.r]

\* number of bits of a limb
RECURSIVE IntBits(_)
IntBits(n) == IF n = 0 THEN 0 ELSE 1 + IntBits(n \div 2)

BitLen(a) == IF a = <<>> THEN 0 ELSE (Len(a) - 1) * LimbBits + IntBits(a[Len(a)])

IsOdd(a) == a /= <<>> /\ a[1] % 2 = 1

\* a shifted left by s bits: whole limbs first, then the bits within a limb
RECURSIVE ShiftLeft(_, _)
ShiftLeft(a, s) ==
    IF s >= LimbBits THEN ShiftLeft(<<0>> \o a, s - LimbBits)
    ELSE IF s = 0 THEN a
    ELSE MulSmall(a, 2 ^ s)

\* a shifted right by s bits; sticky says whether a nonzero bit was dropped
RECURSIVE ShiftRight(_, _)
ShiftRight(a, s) ==
    IF a = <<>> \/ s = 0 THEN [q |-> a, sticky |-> FALSE]
    ELSE IF s >= LimbBits
    THEN LET rest == ShiftRight(Tail(a), s - LimbBits)
         IN  [q |-> rest.q, sticky |-> rest.sticky \/ a[1] /= 0]
    ELSE LET d == DivSmall(a, 2 ^ s)
         IN  [q |-> d.q, sticky |-> d.r /= 0]

(***************************************************************************)
(* float64 values: NaN, or significand m (exactly PrecBits bits) times     *)
(* 2^e.  Closing prices are positive, so zero, infinities and subnormals   *)
(* do not occur.                                                           *)
(***************************************************************************)
NaN == [nan |-> TRUE, m |-> <<>>, e |-> 0]

IsNaN(x) == x.nan

\* (variant: the bits beyond the significand cut off, rounding toward zero)
RoundTowardZero(q, sticky, e) ==
    LET n == BitLen(q)
    IN  IF n <= PrecBits
        THEN [nan |-> FALSE, m |-> ShiftLeft(q, PrecBits - n), e |-> e - (PrecBits - n)]
        ELSE [nan |-> FALSE, m |-> ShiftRight(q, n - PrecBits).q, e |-> e + (n - PrecBits)]

\* round-to-nearest-even of q * 2^e (plus a dropped fraction when sticky)
RoundNearestEven(q, sticky, e) ==
    LET n == BitLen(q)
    IN  IF n <= PrecBits
        THEN [nan |-> FALSE, m |-> ShiftLeft(q, PrecBits - n), e |-> e - (PrecBits - n)]
        ELSE LET t    == n - PrecBits
                 pre  == IF t > LimbBits THEN ShiftRight(q, t - LimbBits)
                                         ELSE [q |-> q, sticky |-> FALSE]
                 half == 2 ^ ((IF t > LimbBits THEN LimbBits ELSE t) - 1)
                 d    == DivSmall(pre.q, 2 * half)
                 st   == pre.sticky \/ sticky \/ d.r % half /= 0
                 up   == d.r >= half /\ (st \/ IsOdd(d.q))
                 m1   == IF up THEN AddOne(d.q) ELSE d.q
             IN  IF up /\ BitLen(m1) > PrecBits
                 THEN [nan |-> FALSE, m |-> DivSmall(m1, 2).q, e |-> e + t + 1]
                 ELSE [nan |-> FALSE, m |-> m1, e |-> e + t]

FromInt(n) == RoundNearestEven(IntLimbs(n), FALSE, 0)

\* the integer an integer-valued float stands for
FloatToInt(x) == LimbsInt(ShiftRight(x.m, 0 - x.e).q)

\* x / y.  The divisor is a baseline: a close in whole units, or the 100.0
\* of an anchor row; it is below 2^(GuardBits-1).
FDiv(x, y) ==
    IF x.nan \/ y.nan THEN NaN
    ELSE LET d == DivSmall(MulSmall(x.m, 2 ^ GuardBits), FloatToInt(y))
         IN  RoundNearestEven(d.q, d.r /= 0, x.e - GuardBits)

\* x * k, k an integer literal
FMul(x, k) ==
    IF x.nan THEN NaN ELSE RoundNearestEven(MulSmall(x.m, k), FALSE, x.e)

\* nearest integer, ties to even (numpy rint), of a float with a fraction
RInt(x) ==
    LET sh == ShiftRight(x.m, (0 - x.e) - 1)
        ip == DivSmall(sh.q, 2).q
        up == IsOdd(sh.q) /\ (sh.sticky \/ IsOdd(ip))
    IN  LimbsInt(ip) + (IF up THEN 1 ELSE 0)

(***************************************************************************)
(* DataFrames                                                              *)
(***************************************************************************)
\* pd.DataFrame()
EmptyFrame == [index |-> <<>>, data |-> <<>>]

Columns(frame) == DOMAIN frame.data

NumRows(frame) == Len(frame.index)

\* DataFrame.empty
IsEmpty(frame) == NumRows(frame) = 0 \/ Columns(frame) = {}

\* A function over 1..n as a tuple, and a function over labels as a record
\* of its values: both are the function itself, with its values computed.
AsSeq(f) == <<>> \o f

AsMap(f) == f @@ <<>>

\* the rows at the given positions, in that order
TakeRows(frame, pos) ==
    [index |-> AsSeq([k \in 1..Len(pos) |-> frame.index[pos[k]]]),
     data  |-> AsMap([c \in Columns(frame) |->
                        AsSeq([k \in 1..Len(pos) |-> frame.data[c][pos[k]]])])]

YearOf(date) == date \div 10000

\* df[df.index.year == year]
RowsOfYear(frame, year) ==
    LET InYear(i) == YearOf(frame.index[i]) = year
    IN  TakeRows(frame, SelectSeq(AsSeq([i \in 1..NumRows(frame) |-> i]), InYear))

\* (variant: every row kept, as if tail(1) were left out)
TailAll(frame) == frame

\* DataFrame.tail(1)
TailOne(frame) ==
    IF NumRows(frame) = 0 THEN frame ELSE TakeRows(frame, <<NumRows(frame)>>)

\* (variant: DataFrame.iloc[0], the first row taken for the last)
FirstRow(frame) == AsMap([c \in Columns(frame) |-> frame.data[c][1]])

\* DataFrame.iloc[-1]
LastRow(frame) == AsMap([c \in Columns(frame) |-> frame.data[c][NumRows(frame)]])

\* pd.concat([a, b]) of two frames with the same columns
Concat(a, b) ==
    [index |-> a.index \o b.index,
     data  |-> AsMap([c \in Columns(a) |-> a.data[c] \o b.data[c]])]

\* (variant: one baseline, the first column's, shared by every column)
DivideByShared(frame, row) ==
    LET shared == row[CHOOSE c \in DOMAIN row : TRUE]
    IN  [index |-> frame.index,
         data  |-> AsMap([c \in Columns(frame) |->
                            AsSeq([i \in 1..NumRows(frame) |-> FDiv(frame.data[c][i], shared)])])]

\* frame / row: every cell divided by the row's entry for the cell's column
DivideByRow(frame, row) ==
    [index |-> frame.index,
     data  |-> AsMap([c \in Columns(frame) |->
                        AsSeq([i \in 1..NumRows(frame) |-> FDiv(frame.data[c][i], row[c])])])]

\* frame * k
TimesInt(frame, k) ==
    [index |-> frame.index,
     data  |-> AsMap([c \in Columns(frame) |->
                        AsSeq([i \in 1..NumRows(frame) |-> FMul(frame.data[c][i], k)])])]

AllNaN(col) == \A i \in 1..Len(col) : IsNaN(col[i])

\* (variant: no column dropped)
KeepAllColumns(frame) == frame

\* DataFrame.dropna(axis=1, how='all')
DropAllNaNColumns(frame) ==
    [index |-> frame.index,
     data  |-> AsMap([c \in {k \in Columns(frame) : ~AllNaN(frame.data[k])} |->
                        frame.data[c]])]

\* (variant: gaps left as they are)
NoFillColumn(col) == col

\* Series.ffill
RECURSIVE FFillColumn(_)
FFillColumn(col) ==
    IF col = <<>> THEN <<>>
    ELSE LET init == FFillColumn(SubSeq(col, 1, Len(col) - 1))
             x    == col[Len(col)]
         IN  Append(init, IF IsNaN(x) /\ init /= <<>> THEN init[Len(init)] ELSE x)

\* DataFrame.ffill
FFill(frame) ==
    [index |-> frame.index,
     data  |-> AsMap([c \in Columns(frame) |-> FFillColumn(frame.data[c])])]

\* DataFrame.rename(columns=mapping)
RenameColumns(frame, mapping) ==
    [index |-> frame.index,
     data  |-> AsMap([n \in {mapping[t] : t \in Columns(frame)} |->
                        frame.data[CHOOSE t \in Columns(frame) : mapping[t] = n]])]

\* Series.round(2), in hundredths: rint(x * 100)
RoundCents(x) == RInt(FMul(x, 100))

(***************************************************************************)
(* The index registry and the market-data provider                         *)
(***************************************************************************)
indices == ("KOSPI" :> "^KS11") @@ ("KOSDAQ" :> "^KQ11")

names == DOMAIN indices

tickers == {indices[n] : n \in names}

inv_indices == [t \in tickers |-> CHOOSE n \in names : indices[n] = t]

\* @st.cache_data(ttl=3600)
ttl == 3600

\* The calendar year in which the session starts; New Year's midnight falls
\* NewYearAt seconds after the start.
StartYear == 2024

NewYearAt == ttl

TickStep == ttl \div 2

\* number of clock steps of the session
MaxTicks == 2

\* most rows a download holds
MaxRows == 3

\* datetime.now(), as a date yyyymmdd: the session starts on December 31
\* of StartYear, NewYearAt seconds before midnight
Today(t) ==
    IF t < NewYearAt THEN StartYear * 10000 + 1231 ELSE (StartYear + 1) * 10000 + 101

\* datetime.now().year
CurrentYear(t) == YearOf(Today(t))

\* Days on which some market traded
TradingDays ==
    { (StartYear - 1) * 10000 + 1220, (StartYear - 1) * 10000 + 1229,
      StartYear * 10000 + 603, StartYear * 10000 + 1220 }

\* Closing prices a ticker may quote
Quotes == ("^KS11" :> {95, 100}) @@ ("^KQ11" :> {50, 55})

start_date(t) == (CurrentYear(t) - 1) * 10000 + 1210

end_date(t) == Today(t)

RECURSIVE SortedSeq(_)
SortedSeq(S) ==
    IF S = {} THEN <<>>
    ELSE LET lo == CHOOSE x \in S : \A y \in S : x <= y
         IN  <<lo>> \o SortedSeq(S \ {lo})

\* float64 closes a ticker's column may hold: a quote, or NaN where it has none
Cells == [k \in tickers |-> {NaN} \cup {FromInt(p) : p \in Quotes[k]}]

\* every table of n rows over the tickers in S
RECURSIVE ColumnChoices(_, _)
ColumnChoices(S, n) ==
    IF S = {} THEN {<<>>}
    ELSE LET k == CHOOSE x \in S : TRUE
         IN  {(k :> col) @@ rest : col \in [1..n -> Cells[k]], rest \in ColumnChoices(S \ {k}, n)}

\* The Close tables yf.download may give for the trading days of a window: a
\* ticker that failed is a column of NaN, a row exists because some market
\* traded on its day.
CloseFrames(window) ==
    UNION { LET idx == SortedSeq(rows)
                n   == Len(idx)
            IN  { [index |-> idx, data |-> d] :
                    d \in { f \in ColumnChoices(tickers, n) :
                              /\ \E k \in tickers : ~AllNaN(f[k])
                              /\ \A i \in 1..n : \E k \in tickers : ~IsNaN(f[k][i]) } }
          : rows \in {r \in SUBSET window : r /= {} /\ Cardinality(r) <= MaxRows} }

Window(t) == {d \in TradingDays : start_date(t) <= d /\ d < end_date(t)}

FramesStartYear == CloseFrames(Window(0))

FramesNextYear == CloseFrames(Window(NewYearAt))

\* What yf.download(tickers, start, end) may give at time t: an exception, an
\* empty frame, or a Close table of the trading days in [start, end).
Download(t) ==
    {[raised |-> TRUE, Close |-> EmptyFrame], [raised |-> FALSE, Close |-> EmptyFrame]}
    \cup {[raised |-> FALSE, Close |-> f] :
            f \in IF t < NewYearAt THEN FramesStartYear ELSE FramesNextYear}

\* the body of fetch_data on the provider's answer: the table it returns and
\* the elements it writes to the page.  The download of several tickers has
\* two-level columns, of which data['Close'] is the table of closes.
fetch_data(data) ==
    IF data.raised
    THEN [value |-> EmptyFrame, msgs |-> {"st.error: Error fetching data"}]
    ELSE IF IsEmpty(data.Close)
    THEN [value |-> EmptyFrame, msgs |-> {}]
    ELSE [value |-> FFill(RenameColumns(data.Close, inv_indices)), msgs |-> {}]

(***************************************************************************)
(* The normalization block of a render                                     *)
(***************************************************************************)
\* (variant: with no previous-year row, the table's first row stands in)
prev_year_or_first(frame, year) ==
    IF NumRows(RowsOfYear(frame, year - 1)) = 0 /\ NumRows(frame) > 0
    THEN TakeRows(frame, <<1>>)
    ELSE RowsOfYear(frame, year - 1)

prev_year_df(frame, year) == RowsOfYear(frame, year - 1)

current_year_df(frame, year) == RowsOfYear(frame, year)

last_close_prev_year(frame, year) == LastRow(prev_year_df(frame, year))

combined(frame, year) ==
    Concat(TailOne(prev_year_df(frame, year)), current_year_df(frame, year))

normalized(frame, year) ==
    LET base   == last_close_prev_year(frame, year)
        scaled == TimesInt(DivideByRow(combined(frame, year), base), 100)
    IN  DropAllNaNColumns(scaled)

\* (variant: the warning branch also shows the raw table)
PageRawFallback(frame, year) ==
    IF ~IsEmpty(frame)
    THEN IF ~IsEmpty(prev_year_df(frame, year))
         THEN [combined_df   |-> combined(frame, year),
               normalized_df |-> normalized(frame, year),
               ui            |-> {"components.html: cards", "st_pyecharts: chart",
                                  "st.dataframe: normalized_df"}]
         ELSE [combined_df   |-> EmptyFrame,
               normalized_df |-> EmptyFrame,
               ui            |-> {"st.warning: no previous-year data", "st.dataframe: df"}]
    ELSE [combined_df   |-> EmptyFrame,
          normalized_df |-> EmptyFrame,
          ui            |-> {"st.error: no data"}]

\* What the script below the fetch does with the table: the tables it builds
\* and the elements it writes to the page.
Page(frame, year) ==
    IF ~IsEmpty(frame)
    THEN IF ~IsEmpty(prev_year_df(frame, year))
         THEN [combined_df   |-> combined(frame, year),
               normalized_df |-> normalized(frame, year),
               ui            |-> {"components.html: cards", "st_pyecharts: chart",
                                  "st.dataframe: normalized_df"}]
         ELSE [combined_df   |-> EmptyFrame,
               normalized_df |-> EmptyFrame,
               ui            |-> {"st.warning: no previous-year data"}]
    ELSE [combined_df   |-> EmptyFrame,
          normalized_df |-> EmptyFrame,
          ui            |-> {"st.error: no data"}]

(***************************************************************************)
(* State                                                                   *)
(***************************************************************************)
VARIABLES
    now,            \* seconds since the session started
    cache,          \* the entry of st.cache_data for fetch_data(indices)
    downloaded,     \* the provider's answer to the last call
    provider_calls, \* number of yf.download calls so far
    df,             \* the table the last render works on
    combined_df,    \* the display table of the last render
    normalized_df,  \* the normalized table of the last render
    ui,             \* the elements the last render wrote to the page
    current_year    \* datetime.now().year of the last render

vars == <<now, cache, downloaded, provider_calls, df, combined_df,
          normalized_df, ui, current_year>>

NoEntry == [stored |-> FALSE, value |-> EmptyFrame, at |-> 0, msgs |-> {}]

NoDownload == [raised |-> FALSE, Close |-> EmptyFrame]

Init ==
    /\ now = 0
    /\ cache = NoEntry
    /\ downloaded = NoDownload
    /\ provider_calls = 0
    /\ df = EmptyFrame
    /\ combined_df = EmptyFrame
    /\ normalized_df = EmptyFrame
    /\ ui = {}
    /\ current_year = CurrentYear(0)

\* (variant: the entry expires after a quarter of ttl)
CacheHitShort(entry, t) == entry.stored /\ (t - entry.at) * 4 < ttl

\* st.cache_data: an entry serves calls until ttl seconds after it was stored
CacheHit(entry, t) == entry.stored /\ t - entry.at < ttl

\* the rest of the script run, on the table fetch_data returned
Show(frame, msgs) ==
    LET page == Page(frame, CurrentYear(now))
    IN  /\ df' = frame
        /\ combined_df' = page.combined_df
        /\ normalized_df' = page.normalized_df
        /\ ui' = msgs \cup page.ui
        /\ current_year' = CurrentYear(now)

\* A script run whose fetch_data call is served from the cache; the elements
\* the cached call wrote are replayed.
RenderCached ==
    /\ CacheHit(cache, now)
    /\ Show(cache.value, cache.msgs)
    /\ UNCHANGED <<now, cache, downloaded, provider_calls>>

\* A script run whose fetch_data call runs: one download, stored on return.
RenderFetch ==
    /\ ~CacheHit(cache, now)
    /\ \E data \in Download(now) :
          LET r == fetch_data(data)
          IN  /\ downloaded' = data
              /\ cache' = [stored |-> TRUE, value |-> r.value, at |-> now, msgs |-> r.msgs]
              /\ Show(r.value, r.msgs)
    /\ provider_calls' = provider_calls + 1
    /\ UNCHANGED now

\* Time passes between script runs.
Tick ==
    /\ now + TickStep <= MaxTicks * TickStep
    /\ now' = now + TickStep
    /\ UNCHANGED <<cache, downloaded, provider_calls, df, combined_df,
                   normalized_df, ui, current_year>>

Next == RenderCached \/ RenderFetch \/ Tick

Spec == Init /\ [][Next]_vars

(***************************************************************************)
(* The normalization alone, on a wider range of closes: the cache already  *)
(* holds a table of two previous-year rows and one current-year row, and   *)
(* the script runs on it.                                                  *)
(***************************************************************************)
\* largest close of the wide range
MaxPrice == 40

WideFrames ==
    { [index |-> <<(StartYear - 1) * 10000 + 1220, (StartYear - 1) * 10000 + 1229,
                   StartYear * 10000 + 603>>,
       data  |-> ("KOSPI" :> <<FromInt(b0), FromInt(b), FromInt(r)>>)
                 @@ ("KOSDAQ" :> <<NaN, FromInt(r), FromInt(b)>>)] :
        b0 \in {95, 100}, b \in 1..MaxPrice, r \in 1..MaxPrice }

NormInit ==
    /\ now = 0
    /\ cache \in {[stored |-> TRUE, value |-> f, at |-> 0, msgs |-> {}] : f \in WideFrames}
    /\ downloaded = NoDownload
    /\ provider_calls = 1
    /\ df = EmptyFrame
    /\ combined_df = EmptyFrame
    /\ normalized_df = EmptyFrame
    /\ ui = {}
    /\ current_year = CurrentYear(0)

NormNext == RenderCached

NormSpec == NormInit /\ [][NormNext]_vars

(***************************************************************************)
(* Properties                                                              *)
(***************************************************************************)
\* the last render drew the dashboard from a normalized table
NormalizedShown == "st.dataframe: normalized_df" \in ui

\* positions of df's rows dated in the given year
RowsIn(year) == {i \in 1..NumRows(df) : YearOf(df.index[i]) = year}

MaxOf(S) == CHOOSE x \in S : \A y \in S : y <= x

\* position in df of the last previous-year row (the anchor)
AnchorPos == MaxOf(RowsIn(current_year - 1))

\* the last render found a table without any previous-year row
NoBaseline == ui /= {} /\ ~IsEmpty(df) /\ RowsIn(current_year - 1) = {}

\* C1: in every render that produces a normalized table, every kept column
\* reads exactly 100.0 in the anchor row, the row of the last previous-year date.
C1_AnchorIsHundred ==
    NormalizedShown =>
        /\ normalized_df.index[1] = df.index[AnchorPos]
        /\ \A c \in Columns(normalized_df) : normalized_df.data[c][1] = FromInt(100)

C1_Witness ==
    /\ NormalizedShown
    /\ Columns(normalized_df) = names
    /\ Cardinality(RowsIn(current_year - 1)) >= 2
    /\ \E c \in names : df.data[c][AnchorPos] /= df.data[c][1]

\* C2: every cell of the normalized table is the display table's cell of the
\* same date and column, divided by that column's own cell in the anchor row,
\* times 100; KOSPI = [95, 100] and KOSDAQ = [50, 55] give [100.00, 105.26]
\* and [100.00, 110.00] once rounded to two decimals.
C2_OwnBaseline ==
    NormalizedShown =>
        /\ \A c \in Columns(normalized_df) : \A i \in 1..NumRows(normalized_df) :
              normalized_df.data[c][i]
                  = FMul(FDiv(combined_df.data[c][i], combined_df.data[c][1]), 100)
        /\ (combined_df.data = ("KOSPI" :> <<FromInt(95), FromInt(100)>>)
                               @@ ("KOSDAQ" :> <<FromInt(50), FromInt(55)>>))
              => /\ Columns(normalized_df) = names
                 /\ RoundCents(normalized_df.data["KOSPI"][1]) = 10000
                 /\ RoundCents(normalized_df.data["KOSPI"][2]) = 10526
                 /\ RoundCents(normalized_df.data["KOSDAQ"][1]) = 10000
                 /\ RoundCents(normalized_df.data["KOSDAQ"][2]) = 11000

C2_Witness ==
    /\ NormalizedShown
    /\ combined_df.data = ("KOSPI" :> <<FromInt(95), FromInt(100)>>)
                          @@ ("KOSDAQ" :> <<FromInt(50), FromInt(55)>>)

\* C3: when a column of the fetched table has no value in the anchor row and
\* another column has one, the normalized table does not hold that column, and
\* no column it holds has a NaN cell.
C3_NoBaselineColumnDropped ==
    (/\ NormalizedShown
     /\ \E c \in Columns(df) : IsNaN(df.data[c][AnchorPos])
     /\ \E c \in Columns(df) : ~IsNaN(df.data[c][AnchorPos]))
    => /\ \A c \in Columns(df) :
             IsNaN(df.data[c][AnchorPos]) => c \notin Columns(normalized_df)
       /\ \A c \in Columns(normalized_df) : \A i \in 1..NumRows(normalized_df) :
             ~IsNaN(normalized_df.data[c][i])

C3_Witness ==
    /\ NormalizedShown
    /\ \E c \in Columns(df) :
          /\ IsNaN(df.data[c][AnchorPos])
          /\ \E i \in 1..NumRows(df) : ~IsNaN(df.data[c][i])
    /\ \E c \in Columns(df) : ~IsNaN(df.data[c][AnchorPos])
    /\ NumRows(normalized_df) >= 2

\* columns of the table whose download failed: they hold no value at all
FailedColumns(frame) == {c \in Columns(frame) : AllNaN(frame.data[c])}

\* C4: a render whose fetch failed, for the whole batch or for one ticker,
\* shows an error element reporting the failure.
C4_FailureReported ==
    (ui /= {} /\ (IsEmpty(df) \/ FailedColumns(df) /= {}))
        => (ui \cap {"st.error: Error fetching data", "st.error: no data"}) /= {}

\* C5: a render on a non-empty table without any previous-year row shows the
\* no-baseline warning, not the no-data error, and builds no normalized table,
\* cards or chart.
C5_NoBaselineWarning ==
    NoBaseline =>
        /\ "st.warning: no previous-year data" \in ui
        /\ "st.error: no data" \notin ui
        /\ normalized_df = EmptyFrame
        /\ combined_df = EmptyFrame
        /\ ui \cap {"components.html: cards", "st_pyecharts: chart",
                    "st.dataframe: normalized_df"} = {}

C5_Witness == NoBaseline /\ NumRows(df) >= 2 /\ Columns(df) = names

\* C6 as stated: a render on a non-empty table without any previous-year row
\* shows the raw table besides the warning.
C6_RawFallback == NoBaseline => "st.dataframe: df" \in ui

\* C6 as amended: a render on a non-empty table without any previous-year row
\* shows the warning and nothing else, no table of raw or normalized values.
C6_WarningOnly == NoBaseline => ui = {"st.warning: no previous-year data"}

C6_Witness == NoBaseline /\ \E c \in Columns(df) : ~IsNaN(df.data[c][1])

\* C7: in the table fetch_data returns, a cell of a date on which its column
\* had no value holds the column's most recent earlier value, a cell holding a
\* value keeps it, and a cell before the column's first value stays NaN.
C7_ForwardFill ==
    (cache.stored /\ ~IsEmpty(downloaded.Close)) =>
        /\ cache.value.index = downloaded.Close.index
        /\ Columns(cache.value) = names
        /\ \A n \in names : \A i \in 1..NumRows(cache.value) :
              LET raw     == downloaded.Close.data[indices[n]]
                  earlier == {j \in 1..i : ~IsNaN(raw[j])}
              IN  IF earlier = {} THEN IsNaN(cache.value.data[n][i])
                  ELSE cache.value.data[n][i] = raw[MaxOf(earlier)]

C7_Witness ==
    /\ cache.stored
    /\ NumRows(downloaded.Close) >= 3
    /\ \E t \in tickers :
          LET raw == downloaded.Close.data[t]
          IN  ~IsNaN(raw[1]) /\ IsNaN(raw[2]) /\ IsNaN(raw[3])
    /\ \E t \in tickers :
          LET raw == downloaded.Close.data[t]
          IN  IsNaN(raw[1]) /\ ~IsNaN(raw[2])

\* C8: a script run makes at most one provider call; a run less than 3600 s
\* after the stored fetch makes none, works on the stored table and leaves the
\* entry alone; the entry is replaced only once it has expired.
C8_CachedWithinWindow ==
    [][ /\ provider_calls' <= provider_calls + 1
        /\ (now' = now /\ cache.stored /\ now - cache.at < 3600)
              => (provider_calls' = provider_calls /\ cache' = cache /\ df' = cache.value)
        /\ (cache' /= cache)
              => /\ ~(cache.stored /\ now - cache.at < 3600)
                 /\ provider_calls' = provider_calls + 1
                 /\ cache'.at = now ]_vars

C8_Witness ==
    /\ cache.stored
    /\ cache.at < NewYearAt
    /\ current_year = StartYear + 1
    /\ df = cache.value
    /\ provider_calls = 1

\* C9: normalizing the normalized table again, its first row being the anchor
\* at 100, gives the same table: the same columns and the same cells.
C9_Idempotent ==
    NormalizedShown =>
        /\ RowsOfYear(normalized_df, current_year - 1) = TakeRows(normalized_df, <<1>>)
        /\ normalized(normalized_df, current_year) = normalized_df

C9_Witness ==
    /\ NormalizedShown
    /\ NumRows(normalized_df) >= 2
    /\ \E c \in Columns(normalized_df) :
          /\ normalized_df.data[c][2] /= FromInt(100)
          /\ FDiv(normalized_df.data[c][2], FromInt(100)) /= FDiv(df.data[c][3], df.data[c][2])

\* C10: the display table is the last previous-year row of the fetched table
\* followed by its current-year rows in ascending date order, and holds no
\* other row.
C10_DisplayRows ==
    NormalizedShown =>
        LET cur == RowsIn(current_year)
            PosOf(d) == CHOOSE i \in 1..NumRows(df) : df.index[i] = d
        IN  /\ combined_df.index
                  = <<df.index[AnchorPos]>> \o SortedSeq({df.index[i] : i \in cur})
            /\ Columns(combined_df) = Columns(df)
            /\ \A c \in Columns(df) : \A k \in 1..NumRows(combined_df) :
                  combined_df.data[c][k] = df.data[c][PosOf(combined_df.index[k])]
            /\ normalized_df.index = combined_df.index

C10_Witness ==
    /\ NormalizedShown
    /\ Cardinality(RowsIn(current_year - 1)) >= 2
    /\ RowsIn(current_year) /= {}

=============================================================================
